---- MODULE Spec2Model ----
(***************************************************************************)
(* A model of todoist.py: the TodoistAPI client, its request dispatcher    *)
(* (_do_request with the wrappers _do_get, _do_post, _do_delete), the      *)
(* colour table and the project endpoint methods, run against a remote     *)
(* service that answers each HTTP request.                                 *)
(*                                                                         *)
(* Python values are records tagged with their type; Python strings are    *)
(* sequences of one-character strings so that str.lower() and str.upper()  *)
(* are computed character by character.                                    *)
(***************************************************************************)
EXTENDS Integers, Sequences, FiniteSets, TLC

VARIABLES
  clients,    \* client object -> [api_key, auth_header] (TodoistAPI.__init__)
  defaults,   \* the mutable default `headers={}` dict of each dispatcher function
  uuid_clock, \* number of uuid.uuid1() values generated so far in the process
  projects,   \* the remote service's project list
  sections,   \* the remote service's section list
  tasks,      \* the remote service's list of active tasks
  seen_request_ids, \* the X-Request-Id values of the POSTs the service has received
  last        \* the call made last: its arguments, outcome and the requests it issued

vars == <<clients, defaults, uuid_clock, projects, sections, tasks,
          seen_request_ids, last>>

--------------------------------------------------------------------------
(* Bounds *)

\* uuid.uuid1() is called at most this many times in a run.
MaxUuid == 2
\* The remote service holds at most this many projects.
MaxProjects == 1
\* ... and at most this many where only projects are created.
MaxCreated == 2
\* The remote service holds at most this many sections and this many tasks.
MaxSections == 1
MaxTasks == 2

--------------------------------------------------------------------------
(* Python strings: str.lower(), str.upper() *)

UpperLetters ==
  <<"A","B","C","D","E","F","G","H","I","J","K","L","M",
    "N","O","P","Q","R","S","T","U","V","W","X","Y","Z">>
LowerLetters ==
  <<"a","b","c","d","e","f","g","h","i","j","k","l","m",
    "n","o","p","q","r","s","t","u","v","w","x","y","z">>

Symbols == {"0","1","2","3","4","5","6","7","8","9","_","-"," ","/","*"}
Chars ==
  {UpperLetters[i] : i \in DOMAIN UpperLetters}
    \cup {LowerLetters[i] : i \in DOMAIN LowerLetters} \cup Symbols

\* str.lower() and str.upper() on one character.
LowerChar ==
  [ch \in Chars |->
     IF \E i \in DOMAIN UpperLetters : UpperLetters[i] = ch
       THEN LowerLetters[CHOOSE i \in DOMAIN UpperLetters : UpperLetters[i] = ch]
       ELSE ch]
UpperChar ==
  [ch \in Chars |->
     IF \E i \in DOMAIN LowerLetters : LowerLetters[i] = ch
       THEN UpperLetters[CHOOSE i \in DOMAIN LowerLetters : LowerLetters[i] = ch]
       ELSE ch]

Lower(s) == [i \in DOMAIN s |-> LowerChar[s[i]]]
Upper(s) == [i \in DOMAIN s |-> UpperChar[s[i]]]

--------------------------------------------------------------------------
(* Python values: [t |-> type name, i |-> number, s |-> string, l |-> items] *)

PyNone == [t |-> "NoneType", i |-> 0, s |-> <<>>, l |-> <<>>]
PyInt(n) == [t |-> "int", i |-> n, s |-> <<>>, l |-> <<>>]
PyStr(x) == [t |-> "str", i |-> 0, s |-> x, l |-> <<>>]
PyBool(b) == [t |-> "bool", i |-> IF b THEN 1 ELSE 0, s |-> <<>>, l |-> <<>>]
PyList(xs) == [t |-> "list", i |-> 0, s |-> <<>>, l |-> xs]
PyTuple(xs) == [t |-> "tuple", i |-> 0, s |-> <<>>, l |-> xs]

IsNumber(v) == v.t \in {"int", "bool"}

\* Python's == on the values above: bool is a subtype of int (True == 1).
PyEq(a, b) ==
  \/ IsNumber(a) /\ IsNumber(b) /\ a.i = b.i
  \/ a.t = "str" /\ b.t = "str" /\ a.s = b.s
  \/ a.t = "NoneType" /\ b.t = "NoneType"
  \/ a.t = b.t /\ a.t \in {"list", "tuple"} /\ a.l = b.l

--------------------------------------------------------------------------
(* The colour table, in the dict's insertion order *)

TODOIST_COLORS ==
  <<
    [id |-> 30, color_hex_code |-> <<"b","8","2","5","6","f">>,
     color_name |-> <<"b","e","r","r","y","_","r","e","d">>],
    [id |-> 40, color_hex_code |-> <<"9","6","c","3","e","b">>,
     color_name |-> <<"l","i","g","h","t","_","b","l","u","e">>],
    [id |-> 31, color_hex_code |-> <<"d","b","4","0","3","5">>,
     color_name |-> <<"r","e","d">>],
    [id |-> 41, color_hex_code |-> <<"4","0","7","3","f","f">>,
     color_name |-> <<"b","l","u","e">>],
    [id |-> 32, color_hex_code |-> <<"f","f","9","9","3","3">>,
     color_name |-> <<"o","r","a","n","g","e">>],
    [id |-> 42, color_hex_code |-> <<"8","8","4","d","f","f">>,
     color_name |-> <<"g","r","a","p","e">>],
    [id |-> 33, color_hex_code |-> <<"f","a","d","0","0","0">>,
     color_name |-> <<"y","e","l","l","o","w">>],
    [id |-> 43, color_hex_code |-> <<"a","f","3","8","e","b">>,
     color_name |-> <<"v","i","o","l","e","t">>],
    [id |-> 34, color_hex_code |-> <<"a","f","b","8","3","b">>,
     color_name |-> <<"o","l","i","v","e","_","g","r","e","e","n">>],
    [id |-> 44, color_hex_code |-> <<"e","b","9","6","e","b">>,
     color_name |-> <<"l","a","v","e","n","d","e","r">>],
    [id |-> 35, color_hex_code |-> <<"7","e","c","c","4","9">>,
     color_name |-> <<"l","i","m","e","_","g","r","e","e","n">>],
    [id |-> 45, color_hex_code |-> <<"e","0","5","1","9","4">>,
     color_name |-> <<"m","a","g","e","n","t","a">>],
    [id |-> 36, color_hex_code |-> <<"2","9","9","4","3","8">>,
     color_name |-> <<"g","r","e","e","n">>],
    [id |-> 46, color_hex_code |-> <<"f","f","8","d","8","5">>,
     color_name |-> <<"s","a","l","m","o","n">>],
    [id |-> 37, color_hex_code |-> <<"6","a","c","c","b","c">>,
     color_name |-> <<"m","i","n","t","_","g","r","e","e","n">>],
    [id |-> 47, color_hex_code |-> <<"8","0","8","0","8","0">>,
     color_name |-> <<"c","h","a","r","c","o","a","l">>],
    [id |-> 38, color_hex_code |-> <<"1","5","8","f","a","d">>,
     color_name |-> <<"t","e","a","l">>],
    [id |-> 48, color_hex_code |-> <<"b","8","b","8","b","8">>,
     color_name |-> <<"g","r","e","y">>],
    [id |-> 39, color_hex_code |-> <<"1","4","a","a","f","5">>,
     color_name |-> <<"s","k","y","_","b","l","u","e">>],
    [id |-> 49, color_hex_code |-> <<"c","c","a","c","9","3">>,
     color_name |-> <<"t","a","u","p","e">>]
  >>

--------------------------------------------------------------------------
(* Python dicts are functions from keys to values *)

EmptyDict == <<>>
Keys(d) == DOMAIN d
\* d[k] = v
SetItem(d, k, v) == (k :> v) @@ d
\* d.update(e)
Update(d, e) == e @@ d

--------------------------------------------------------------------------
(* TodoistAPI.__init__ *)

BearerPrefix == <<"B","e","a","r","e","r"," ">>
base_url == "https://api.todoist.com/rest/v1/"

TodoistAPI(api_key) ==
  [api_key |-> api_key,
   auth_header |-> ("Authorization" :> (BearerPrefix \o api_key)),
   base_url |-> base_url]

\* Two client objects of one process, constructed with different keys.
ClientIds == {"td1", "td2"}
ApiKeyOf(c) == IF c = "td1" THEN <<"k","e","y","1">> ELSE <<"k","e","y","2">>

--------------------------------------------------------------------------
(* The request dispatcher *)

GET == <<"G","E","T">>
POST == <<"P","O","S","T">>
DELETE == <<"D","E","L","E","T","E">>
supported_http_methods == <<GET, POST, DELETE>>

Outcome(exc, msg, status) == [exc |-> exc, msg |-> msg, status |-> status]
\* The call returned the response with this status.
Returned(status) == Outcome("none", "", status)
Raised(out) == out.exc # "none"

\* What the remote end answers to one request: a response with a status code,
\* or no response at all (timeout, DNS, connection reset).
TransportFailure == [transport |-> TRUE, status |-> 0]
Response(status) == [transport |-> FALSE, status |-> status]

\* requests.Response.raise_for_status(): raises only for 4xx and 5xx.
raise_for_status(status) ==
  400 <= status /\ status < 600

\* type(expected_status_code) in [int, list]
ExpectedTypeOk(expected) == expected.t \in {"int", "list"}
\* expected_status_code = [expected_status_code] unless it is a list
ExpectedAsList(expected) ==
  IF expected.t # "list" THEN <<expected>> ELSE expected.l
\* The element check left out: only the type of the argument is looked at.
ExpectedItemsOk_Unchecked(expected) ==
  TRUE

ExpectedItemsOk(expected) ==
  \A k \in DOMAIN ExpectedAsList(expected) : ExpectedAsList(expected)[k].t = "int"
\* status_code in expected_status_code
StatusAccepted(status, expected) ==
  \E k \in DOMAIN ExpectedAsList(expected) :
    PyEq(PyInt(status), ExpectedAsList(expected)[k])

\* The headers object that is sent: self.auth_header when the one passed is
\* empty, else the one passed, updated with Authorization if it has none.
MergedHeaders(self, headers) ==
  IF Keys(headers) = {}
    THEN self.auth_header
    ELSE IF "Authorization" \notin Keys(headers)
           THEN Update(headers, self.auth_header)
           ELSE headers

\* self.auth_header after the merge: the attribute is only read; an empty
\* headers is rebound to the object, which nothing writes to afterwards.
AuthHeaderAfter_WrittenThrough(self, headers) ==
  Update(self.auth_header, headers)

AuthHeaderAfter(self, headers) ==
  self.auth_header

\* The request as it goes on the wire.
WireRequest(method, url, headers, data, params) ==
  [method |-> method, url |-> url, headers |-> headers,
   body |-> IF method = POST THEN <<[json |-> data]>> ELSE <<>>,
   params |-> IF method = GET THEN <<params>> ELSE <<>>]

\* The X-Request-Id values of the POST requests among `sent`.
RequestIds(sent) ==
  {sent[k].headers["X-Request-Id"] :
     k \in {j \in DOMAIN sent : sent[j].method = POST
                                /\ "X-Request-Id" \in Keys(sent[j].headers)}}

\* http_method.upper() not in supported_http_methods
UnsupportedMethod(http_method) ==
  \A k \in DOMAIN supported_http_methods : supported_http_methods[k] # Upper(http_method)

\* The argument validation of _do_request, in the order of the code: the
\* message of the ValueError raised, "" when none is.
ArgumentError_ExpectedFirst(http_method, expected) ==
  IF ~ExpectedTypeOk(expected) \/ ~ExpectedItemsOk(expected)
    THEN "expected_status_code"
  ELSE IF UnsupportedMethod(http_method)
    THEN "unsupported_method"
  ELSE ""

ArgumentError(http_method, expected) ==
  IF UnsupportedMethod(http_method)
    THEN "unsupported_method"
  ELSE IF ~ExpectedTypeOk(expected) \/ ~ExpectedItemsOk(expected)
    THEN "expected_status_code"
  ELSE ""

\* The HTTP calls one invocation makes for its request: requests.get, .post
\* or .delete is called once, whatever comes back.
Resent(request, reply) ==
  IF reply.transport \/ raise_for_status(reply.status)
    THEN <<request, request>>
    ELSE <<request>>

Issued(request, reply) ==
  <<request>>

\* _do_request: the result holds the outcome, the requests issued and the
\* contents of the passed headers object after the call (headers.update
\* mutates it in place; an empty one is left alone and rebound).
_do_request(self, http_method, url, headers, data, params, expected, reply) ==
  LET method == Upper(http_method)
      error == ArgumentError(http_method, expected)
      unmerged(out, sent, hdrs) ==
        [out |-> out, sent |-> sent, headers |-> hdrs, auth_header |-> self.auth_header]
      result(out, sent, hdrs) ==
        [out |-> out, sent |-> sent, headers |-> hdrs,
         auth_header |-> AuthHeaderAfter(self, headers)]
  IN  IF error # ""
        THEN unmerged(Outcome("ValueError", error, 0), <<>>, headers)
      ELSE
        LET merged == MergedHeaders(self, headers)
            after == IF Keys(headers) = {} THEN headers ELSE merged
            sent == Issued(WireRequest(method, url, merged, data, params), reply)
        IN  IF reply.transport
              THEN result(Outcome("ConnectionError", "", 0), sent, after)
            ELSE IF ~StatusAccepted(reply.status, expected)
                    /\ raise_for_status(reply.status)
              THEN result(Outcome("HTTPError", "", reply.status), sent, after)
            ELSE result(Returned(reply.status), sent, after)

\* _do_get passes its headers object through to _do_request.
_do_get(self, url, headers, params, expected, reply) ==
  _do_request(self, GET, url, headers, EmptyDict, params, expected, reply)

Digits == <<"1","2","3","4","5","6","7","8","9">>
\* str(uuid.uuid1()).upper(): the n-th value generated in the process.
uuid1(n) == <<"u","u","i","d","-",Digits[n]>>
NewRequestId(n) == Upper(uuid1(n))

\* The headers object of _do_post once it has set Content-Type and
\* X-Request-Id; `clock` is the number of uuid1() values generated before.
PostHeaders(headers, clock) ==
  LET h1 == IF "Content-Type" \notin Keys(headers)
              THEN SetItem(headers, "Content-Type",
                           <<"a","p","p","l","i","c","a","t","i","o","n","/","j","s","o","n">>)
              ELSE headers
  IN  IF "X-Request-Id" \notin Keys(h1)
        THEN SetItem(h1, "X-Request-Id", NewRequestId(clock + 1))
        ELSE h1

\* _do_post: as _do_request, plus the number of uuid1() values it generated.
_do_post(self, url, headers, data, expected, reply, clock) ==
  LET r == _do_request(self, POST, url, PostHeaders(headers, clock), data,
                       EmptyDict, expected, reply)
  IN  [out |-> r.out, sent |-> r.sent, headers |-> r.headers,
       auth_header |-> r.auth_header,
       uuids |-> IF "X-Request-Id" \notin Keys(headers) THEN 1 ELSE 0]

\* _do_delete ignores its headers argument: _do_request gets its own default.
_do_delete(self, url, request_default, expected, reply) ==
  _do_request(self, DELETE, url, request_default, EmptyDict, EmptyDict, expected, reply)

--------------------------------------------------------------------------
(* The remote service: the resources projects and projects/{id} *)

\* What can go wrong with one request: nothing, a server error, no response
\* at all, or a 204 without content where content was asked for.
Faults == {"none", "error500", "transport", "empty204"}

ProjectIds(projs) == {projs[k].id : k \in DOMAIN projs}
ProjectWithId(projs, id) ==
  projs[CHOOSE k \in DOMAIN projs : projs[k].id = id]
\* The service gives a new project the smallest id not in use.
NewProjectId(projs) ==
  CHOOSE n \in 1..(Len(projs) + 1) : n \notin ProjectIds(projs)

\* The JSON object of a project, as result.json() gives it: a dict.
NewProject(projs, data) ==
  [id |-> NewProjectId(projs),
   name |-> data["name"].s,
   color |-> IF "color" \in Keys(data) THEN data["color"].i ELSE 47,
   favorite |-> IF "favorite" \in Keys(data) THEN data["favorite"].i = 1 ELSE FALSE,
   parent_id |-> IF "parent_id" \in Keys(data) THEN data["parent_id"].i ELSE 0]

UpdatedProject(p, data) ==
  [p EXCEPT
     !.name = IF "name" \in Keys(data) THEN data["name"].s ELSE @,
     !.color = IF "color" \in Keys(data) THEN data["color"].i ELSE @,
     !.favorite = IF "favorite" \in Keys(data) THEN data["favorite"].i = 1 ELSE @]

SelectSeq2(projs, id) ==
  LET keep(p) == p.id # id IN SelectSeq(projs, keep)

\* The answer to one request: the reply, the JSON body (<<>> when there is
\* none) and the project list afterwards.
ServiceAnswer(projs, method, url, data, fault) ==
  LET answer(reply, body, after) == [reply |-> reply, body |-> body, projects |-> after]
      known == Len(url) = 2 /\ url[2] \in ProjectIds(projs)
  IN  IF fault = "transport" THEN answer(TransportFailure, <<>>, projs)
      ELSE IF fault = "error500" THEN answer(Response(500), <<>>, projs)
      ELSE IF fault = "empty204" THEN answer(Response(204), <<>>, projs)
      ELSE IF Len(url) = 1
        THEN IF method = GET
               THEN answer(Response(200), <<projs>>, projs)
               ELSE answer(Response(200), <<NewProject(projs, data)>>,
                           Append(projs, NewProject(projs, data)))
      ELSE IF ~known THEN answer(Response(404), <<>>, projs)
      ELSE IF method = GET
        THEN answer(Response(200), <<ProjectWithId(projs, url[2])>>, projs)
      ELSE IF method = POST
        THEN answer(Response(204), <<>>,
                    [k \in DOMAIN projs |->
                       IF projs[k].id = url[2]
                         THEN UpdatedProject(projs[k], data) ELSE projs[k]])
      ELSE answer(Response(204), <<>>, SelectSeq2(projs, url[2]))

\* The resources sections and tasks.  A section is [id, project_id, name]; a
\* task is [id, project_id, section_id, parent_id], 0 standing for "none" and
\* project 0 for the inbox, where a task without a project goes.
Inbox == 0
ItemIds(items) == {items[k].id : k \in DOMAIN items}
NewItemId(items) ==
  CHOOSE n \in 1..(Len(items) + 1) : n \notin ItemIds(items)
IdOrNone(data, key) ==
  IF key \in Keys(data) /\ data[key].t = "int" THEN data[key].i ELSE 0
\* The items a GET with query parameters lists: those of the project asked
\* for, all of them when no project is asked for.
Listed(items, params) ==
  LET wanted(x) == "project_id" \in Keys(params) => x.project_id = params["project_id"].i
  IN  SelectSeq(items, wanted)
NewSection(sects, data) ==
  [id |-> NewItemId(sects), project_id |-> data["project_id"].i, name |-> data["name"].s]
NewTask(tsks, data) ==
  [id |-> NewItemId(tsks),
   project_id |-> IF data["project_id"].t = "int" THEN data["project_id"].i ELSE Inbox,
   section_id |-> IdOrNone(data, "section_id"),
   parent_id |-> IdOrNone(data, "parent_id")]

\* The answer of the whole service to one request: reply, JSON body, and the
\* three lists afterwards; `remote` has the fields projects, sections, tasks.
\* The sections and tasks of a project go when the project is deleted.
RemoteAnswer(remote, method, url, data, params, fault) ==
  LET answer(reply, body, sects, tsks) ==
        [reply |-> reply, body |-> body, projects |-> remote.projects,
         sections |-> sects, tasks |-> tsks]
      unchanged(reply, body) == answer(reply, body, remote.sections, remote.tasks)
  IN  IF url[1] = "projects"
        THEN LET a == ServiceAnswer(remote.projects, method, url, data, fault)
                 kept(x) == x.project_id \in ProjectIds(a.projects) \cup {Inbox}
             IN  [reply |-> a.reply, body |-> a.body, projects |-> a.projects,
                  sections |-> SelectSeq(remote.sections, kept),
                  tasks |-> SelectSeq(remote.tasks, kept)]
      ELSE IF fault = "transport" THEN unchanged(TransportFailure, <<>>)
      ELSE IF fault = "error500" THEN unchanged(Response(500), <<>>)
      ELSE IF fault = "empty204" THEN unchanged(Response(204), <<>>)
      ELSE IF url[1] = "sections"
        THEN IF method = GET
               THEN unchanged(Response(200), <<Listed(remote.sections, params)>>)
               ELSE answer(Response(200), <<NewSection(remote.sections, data)>>,
                           Append(remote.sections, NewSection(remote.sections, data)),
                           remote.tasks)
      ELSE IF method = GET
        THEN unchanged(Response(200), <<Listed(remote.tasks, params)>>)
      ELSE answer(Response(200), <<NewTask(remote.tasks, data)>>, remote.sections,
                  Append(remote.tasks, NewTask(remote.tasks, data)))

--------------------------------------------------------------------------
(* One endpoint call: the process state it works on and the HTTP calls made *)

\* The state an endpoint method threads through its HTTP calls; `faults`
\* says what goes wrong with the first, second, ... request of the call.
Session(self, faults) ==
  [defaults |-> defaults, uuid_clock |-> uuid_clock, projects |-> projects,
   sections |-> sections, tasks |-> tasks, auth_header |-> self.auth_header,
   seen |-> seen_request_ids, faults |-> faults, sent |-> <<>>, replies |-> <<>>,
   accepted |-> <<>>]

NextFault(s) == s.faults[Len(s.replies) + 1]

\* The result of a step of an endpoint method: the session, the outcome and
\* the value returned (or the JSON body of the response).
Step(s, out, val) == [s |-> s, out |-> out, val |-> val]
Fail(s, exc, msg) == Step(s, Outcome(exc, msg, 0), <<>>)

\* The one element of a singleton set; {e(x) : x \in {v}} names v once.
Only(S) == CHOOSE x \in S : TRUE

AfterHttp(s, fn, expected, r, ans) ==
  [s EXCEPT !.defaults[fn] = r.headers,
            !.auth_header = r.auth_header,
            !.accepted = Append(@, expected),
            !.projects = IF r.sent # <<>> THEN ans.projects ELSE @,
            !.sections = IF r.sent # <<>> THEN ans.sections ELSE @,
            !.tasks = IF r.sent # <<>> THEN ans.tasks ELSE @,
            !.seen = @ \cup RequestIds(r.sent),
            !.sent = @ \o r.sent,
            !.replies = Append(@, ans.reply)]

\* self._do_get(url=..., params=...)
HttpGet(s, self, url, params) ==
  Only({Step(AfterHttp(s, "_do_get", PyInt(200), x.r, x.ans), x.r.out, x.ans.body) :
          x \in {[ans |-> ans,
                  r |-> _do_get(self, url, s.defaults["_do_get"], params,
                                PyInt(200), ans.reply)] :
                   ans \in {RemoteAnswer(s, GET, url, EmptyDict, params,
                                         NextFault(s))}}})

\* self._do_post(url=..., data=..., expected_status_code=...)
HttpPost(s, self, url, data, expected) ==
  Only({Step([AfterHttp(s, "_do_post", expected, x.r, x.ans)
                EXCEPT !.uuid_clock = @ + x.r.uuids],
             x.r.out, x.ans.body) :
          x \in {[ans |-> ans,
                  r |-> _do_post(self, url, s.defaults["_do_post"], data, expected,
                                 ans.reply, s.uuid_clock)] :
                   ans \in {RemoteAnswer(s, POST, url, data, EmptyDict,
                                         NextFault(s))}}})

\* self._do_delete(url=...)
HttpDelete(s, self, url) ==
  Only({Step(AfterHttp(s, "_do_request", PyInt(204), x.r, x.ans), x.r.out, x.ans.body) :
          x \in {[ans |-> ans,
                  r |-> _do_delete(self, url, s.defaults["_do_request"],
                                   PyInt(204), ans.reply)] :
                   ans \in {RemoteAnswer(s, DELETE, url, EmptyDict, EmptyDict,
                                         NextFault(s))}}})

\* result.json(): fails when the response has no content.
Json(step) ==
  IF Raised(step.out) THEN step
  ELSE IF step.val = <<>> THEN Fail(step.s, "JSONDecodeError", "")
  ELSE Step(step.s, step.out, step.val[1])

--------------------------------------------------------------------------
(* The endpoint methods of projects *)

get_all_projects(s, self) ==
  Only({Json(got) : got \in {HttpGet(s, self, <<"projects">>, EmptyDict)}})

\* The loop over TODOIST_COLORS from entry k on: the id found, or the error.
RECURSIVE ResolveFrom(_, _)
ResolveFrom(color, k) ==
  IF k > Len(TODOIST_COLORS) THEN [exc |-> "ValueError", id |-> 0]
  ELSE LET o == TODOIST_COLORS[k]
       IN  IF PyEq(color, PyInt(o.id)) THEN [exc |-> "none", id |-> o.id]
           ELSE IF color.t # "str" THEN [exc |-> "AttributeError", id |-> 0]
           ELSE IF Lower(color.s) = o.color_hex_code \/ Lower(color.s) = o.color_name
             THEN [exc |-> "none", id |-> o.id]
           ELSE ResolveFrom(color, k + 1)

ResolveColor_Unvalidated(color) == [exc |-> "none", id |-> 0]

\* "Validate the color": the resolved id of a color argument that is not None.
ResolveColor(color) == ResolveFrom(color, 1)

\* The names compared as they are, letter case included.
NameTaken_ExactCase(all_projects, new_project_name) ==
  \E k \in DOMAIN all_projects : all_projects[k].name = new_project_name.s

\* for p in all_projects: p['name'].lower() == new_project_name.lower()
NameTaken(all_projects, new_project_name) ==
  \E k \in DOMAIN all_projects :
    Lower(all_projects[k].name) = Lower(new_project_name.s)

ParentListed_Unchecked(all_projects, parent_project_id) ==
  TRUE

\* parent_id_exists: some p in all_projects has p['id'] == parent_project_id
ParentListed(all_projects, parent_project_id) ==
  \E k \in DOMAIN all_projects : all_projects[k].id = parent_project_id.i

\* The favorite flag put into the body whatever it is.
ProjectData_FavoriteAlways(new_project_name, parent_project_id, color, is_favorite) ==
  ("name" :> new_project_name) @@ ("favorite" :> is_favorite)
    @@ (IF parent_project_id.t # "NoneType"
          THEN "parent_id" :> parent_project_id ELSE EmptyDict)
    @@ (IF color.t # "NoneType" THEN "color" :> color ELSE EmptyDict)

\* "Validations have passed.  Let's create the project": the body of the POST;
\* `color` is the resolved id, or None.
ProjectData(new_project_name, parent_project_id, color, is_favorite) ==
  ("name" :> new_project_name)
    @@ (IF parent_project_id.t # "NoneType"
          THEN "parent_id" :> parent_project_id ELSE EmptyDict)
    @@ (IF color.t # "NoneType" THEN "color" :> color ELSE EmptyDict)
    @@ (IF is_favorite = PyBool(TRUE)
          THEN "favorite" :> is_favorite ELSE EmptyDict)

\* create_new_project from "Validate that the new project name doesn't
\* already exist" on; `all` is what get_all_projects gave.
CreateAfterListing(all, self, new_project_name, parent_project_id, color, is_favorite) ==
  LET all_projects == all.val
      resolved == ResolveColor(color)
      data == ProjectData(new_project_name, parent_project_id,
                          IF color.t # "NoneType" THEN PyInt(resolved.id) ELSE PyNone,
                          is_favorite)
  IN  IF Raised(all.out) THEN all
      ELSE IF NameTaken(all_projects, new_project_name)
        THEN Fail(all.s, "IndexError", "duplicate_name")
      ELSE IF parent_project_id.t \notin {"NoneType", "int"}
        THEN Fail(all.s, "TypeError", "parent_project_id")
      ELSE IF parent_project_id.t # "NoneType"
              /\ ~ParentListed(all_projects, parent_project_id)
        THEN Fail(all.s, "IndexError", "parent_project_id")
      ELSE IF color.t # "NoneType" /\ resolved.exc # "none"
        THEN Fail(all.s, resolved.exc, "color")
      ELSE IF is_favorite.t # "bool"
        THEN Fail(all.s, "ValueError", "is_favorite")
      ELSE Only({Json(posted) :
                   posted \in {HttpPost(all.s, self, <<"projects">>, data, PyInt(200))}})

create_new_project(s, self, new_project_name, parent_project_id, color, is_favorite) ==
  IF new_project_name.t # "str" THEN Fail(s, "TypeError", "new_project_name")
  ELSE Only({CreateAfterListing(all, self, new_project_name, parent_project_id,
                                color, is_favorite) :
               all \in {get_all_projects(s, self)}})

get_project(s, self, project_id) ==
  IF project_id.t # "int" THEN Fail(s, "TypeError", "project_id")
  ELSE Only({Json(got) :
               got \in {HttpGet(s, self, <<"projects", project_id.i>>, EmptyDict)}})

\* except Exception as ex, with a 404: the project does not exist.
NotFoundMeansFalse_AnyError(got) ==
  got.out.exc = "HTTPError"

NotFoundMeansFalse(got) ==
  got.out.exc = "HTTPError" /\ got.out.status = 404

\* project_exists once get_project has returned or raised.
ExistsAfterGet(got) ==
  IF ~Raised(got.out) THEN Step(got.s, Returned(0), TRUE)
  ELSE IF NotFoundMeansFalse(got) THEN Step(got.s, Returned(0), FALSE)
  ELSE got

project_exists(s, self, project_id) ==
  IF project_id.t # "int" THEN Fail(s, "TypeError", "project_id")
  ELSE Only({ExistsAfterGet(got) : got \in {get_project(s, self, project_id)}})

--------------------------------------------------------------------------
(* update_project and delete_project *)

\* update_project from "Validate the color" on; `got` is what get_project gave.
UpdateAfterGet(got, self, project_id, project_name, color, is_favorite) ==
  LET project == got.val
      resolved == ResolveColor(color)
      new_color == PyInt(resolved.id)
      project_name_matches ==
        project_name.t = "NoneType" \/ PyEq(PyStr(project.name), project_name)
      color_matches ==
        color.t = "NoneType" \/ PyEq(PyInt(project.color), new_color)
      is_favorite_matches ==
        is_favorite.t = "NoneType" \/ PyEq(PyBool(project.favorite), is_favorite)
      data == (IF project_name.t # "NoneType"
                 THEN "name" :> project_name ELSE EmptyDict)
              @@ (IF color.t # "NoneType" THEN "color" :> new_color ELSE EmptyDict)
              @@ (IF is_favorite.t # "NoneType"
                    THEN "favorite" :> is_favorite ELSE EmptyDict)
  IN  IF Raised(got.out) THEN got
      ELSE IF color.t # "NoneType" /\ resolved.exc # "none"
        THEN Fail(got.s, resolved.exc, "color")
      ELSE IF project_name_matches /\ color_matches /\ is_favorite_matches
        THEN Fail(got.s, "ValueError", "no_change")
      ELSE Only({IF Raised(posted.out) THEN posted
                 ELSE Step(posted.s, posted.out, <<>>) :
                   posted \in {HttpPost(got.s, self, <<"projects", project_id.i>>,
                                        data, PyInt(204))}})

\* update_project from "Validate that the project already exists" on.
UpdateAfterExists(exists, self, project_id, project_name, color, is_favorite) ==
  IF Raised(exists.out) THEN exists
  ELSE IF exists.val = FALSE
    THEN Fail(exists.s, "ValueError", "project_does_not_exist")
  ELSE Only({UpdateAfterGet(got, self, project_id, project_name, color, is_favorite) :
               got \in {get_project(exists.s, self, project_id)}})

update_project(s, self, project_id, project_name, color, is_favorite) ==
  IF project_id.t # "int" THEN Fail(s, "TypeError", "project_id")
  ELSE IF project_name.t = "NoneType" /\ color.t = "NoneType"
          /\ is_favorite.t = "NoneType"
    THEN Fail(s, "ValueError", "nothing_to_update")
  ELSE Only({UpdateAfterExists(exists, self, project_id, project_name, color,
                               is_favorite) :
               exists \in {project_exists(s, self, project_id)}})

\* The DELETE issued whatever project_exists returned.
DeleteAfterExists_Unchecked(exists, self, project_id) ==
  IF Raised(exists.out) THEN exists
  ELSE Only({IF Raised(deleted.out) THEN deleted
             ELSE Step(deleted.s, deleted.out, <<>>) :
               deleted \in {HttpDelete(exists.s, self, <<"projects", project_id.i>>)}})

DeleteAfterExists(exists, self, project_id) ==
  IF Raised(exists.out) THEN exists
  ELSE IF exists.val = FALSE
    THEN Fail(exists.s, "ValueError", "project_does_not_exist")
  ELSE Only({IF Raised(deleted.out) THEN deleted
             ELSE Step(deleted.s, deleted.out, <<>>) :
               deleted \in {HttpDelete(exists.s, self, <<"projects", project_id.i>>)}})

delete_project(s, self, project_id) ==
  Only({DeleteAfterExists(exists, self, project_id) :
          exists \in {project_exists(s, self, project_id)}})

--------------------------------------------------------------------------
(* The endpoint methods of sections and tasks *)

\* bool(v): None, 0, "" and [] are false.
Truthy(v) ==
  CASE v.t = "NoneType" -> FALSE
    [] v.t \in {"int", "bool"} -> v.i # 0
    [] v.t = "str" -> v.s # <<>>
    [] OTHER -> v.l # <<>>

\* v in [x['id'] for x in items]
InIds(v, items) ==
  \E k \in DOMAIN items : PyEq(v, PyInt(items[k].id))

\* get_all_sections from the project check on; `all` is what
\* get_all_projects gave.
SectionsAfterListing(all, self, project_id) ==
  IF Raised(all.out) THEN all
  ELSE IF ~InIds(project_id, all.val)
    THEN Fail(all.s, "ValueError", "project_does_not_exist")
  ELSE Only({Json(got) :
               got \in {HttpGet(all.s, self, <<"sections">>,
                                "project_id" :> project_id)}})

get_all_sections(s, self, project_id) ==
  IF project_id.t = "NoneType"
    THEN Only({Json(got) : got \in {HttpGet(s, self, <<"sections">>, EmptyDict)}})
  ELSE IF project_id.t # "int" THEN Fail(s, "TypeError", "project_id")
  ELSE Only({SectionsAfterListing(all, self, project_id) :
               all \in {get_all_projects(s, self)}})

get_sections_by_project_id(s, self, project_id) ==
  get_all_sections(s, self, project_id)

\* create_new_section once project_exists has returned or raised.
SectionAfterExists(exists, self, section_name, project_id) ==
  IF Raised(exists.out) THEN exists
  ELSE IF ~exists.val
    THEN Fail(exists.s, "ValueError", "project_does_not_exist")
  ELSE Only({Json(posted) :
               posted \in {HttpPost(exists.s, self, <<"sections">>,
                                    ("project_id" :> project_id)
                                      @@ ("name" :> section_name),
                                    PyInt(200))}})

create_new_section(s, self, section_name, project_id, order) ==
  IF ~Truthy(section_name) \/ section_name.t # "str"
    THEN Fail(s, "ValueError", "section_name")
  ELSE Only({SectionAfterExists(exists, self, section_name, project_id) :
               exists \in {project_exists(s, self, project_id)}})

\* The first argument of get_active_tasks that fails its validation, "" when
\* none does; a has the fields project_id, section_id, label_id, filter,
\* lang and ids.
TaskFilterError(a) ==
  IF a.project_id.t \notin {"NoneType", "int"} THEN "project_id"
  ELSE IF a.section_id.t \notin {"NoneType", "int"} THEN "section_id"
  ELSE IF a.label_id.t \notin {"NoneType", "int"} THEN "label_id"
  ELSE IF a.filter.t \notin {"NoneType", "str"} THEN "filter"
  ELSE IF a.lang.t \notin {"NoneType", "str"} THEN "lang"
  ELSE IF a.ids.t \notin {"NoneType", "list"} THEN "ids"
  ELSE IF a.ids.t = "list" /\ \E k \in DOMAIN a.ids.l : a.ids.l[k].t # "int"
    THEN "ids"
  ELSE ""

\* The ids kept although the list is empty, instead of being coerced to None.
CoercedIds_EmptyKept(ids) ==
  ids

\* "Coercing to None": an empty ids list becomes None.
CoercedIds(ids) ==
  IF ids.t = "list" /\ Len(ids.l) = 0 THEN PyNone ELSE ids

\* "Construct a dict of truthy arguments": the arguments that are not None.
TaskFilterParams(a) ==
  LET put(key, v) == IF v.t # "NoneType" THEN key :> v ELSE EmptyDict
  IN  put("project_id", a.project_id) @@ put("section_id", a.section_id)
        @@ put("label_id", a.label_id) @@ put("filter", a.filter)
        @@ put("lang", a.lang) @@ put("ids", CoercedIds(a.ids))

get_active_tasks(s, self, a) ==
  IF TaskFilterError(a) # "" THEN Fail(s, "ValueError", TaskFilterError(a))
  ELSE Only({Json(got) :
               got \in {HttpGet(s, self, <<"tasks">>, TaskFilterParams(a))}})

\* The arguments of get_active_tasks left at their default, None.
NoFilter ==
  [project_id |-> PyNone, section_id |-> PyNone, label_id |-> PyNone,
   filter |-> PyNone, lang |-> PyNone, ids |-> PyNone]

get_all_tasks(s, self) ==
  get_active_tasks(s, self, NoFilter)

--------------------------------------------------------------------------
(* create_new_task; `a` holds its arguments under their names *)

\* str(v) for the values a description is given as: a string is itself, a
\* one-digit integer its digit.
StrOf(v) ==
  IF v.t = "str" THEN v ELSE PyStr(<<Digits[v.i]>>)

\* "Validate Project ID, if one was specified"
TaskProjectCheck(s, self, project_id) ==
  IF project_id.t = "NoneType" THEN Step(s, Returned(0), TRUE)
  ELSE Only({IF Raised(e.out) THEN e
             ELSE IF ~e.val THEN Fail(e.s, "ValueError", "project_does_not_exist")
             ELSE e :
               e \in {project_exists(s, self, project_id)}})

\* "Validate Section ID, if one was specified"
TaskSectionCheck(s, self, project_id, section_id) ==
  IF section_id.t = "NoneType" THEN Step(s, Returned(0), TRUE)
  ELSE IF project_id.t = "NoneType"
    THEN Fail(s, "ValueError", "section_without_project")
  ELSE Only({IF Raised(g.out) THEN g
             ELSE IF ~InIds(section_id, g.val)
               THEN Fail(g.s, "ValueError", "section_does_not_exist")
             ELSE g :
               g \in {get_sections_by_project_id(s, self, project_id)}})

\* The parent task is looked up without regard to the project given.
ParentProject_Unchecked(all_tasks, project_id, parent_id) ==
  [exc |-> "none", msg |-> "", project_id |-> project_id]

\* The parent task among all_tasks and the project the new task goes to: the
\* one given, which must be the parent's, or the parent's when none is given.
ParentProject(all_tasks, project_id, parent_id) ==
  IF ~InIds(parent_id, all_tasks)
    THEN [exc |-> "ValueError", msg |-> "parent_does_not_exist", project_id |-> project_id]
  ELSE LET first == CHOOSE k \in DOMAIN all_tasks :
                      /\ all_tasks[k].id = parent_id.i
                      /\ \A j \in 1..(k - 1) : all_tasks[j].id # parent_id.i
           parent_task_project_id == PyInt(all_tasks[first].project_id)
       IN  IF project_id.t = "NoneType"
             THEN [exc |-> "none", msg |-> "", project_id |-> parent_task_project_id]
           ELSE IF ~PyEq(project_id, parent_task_project_id)
             THEN [exc |-> "ValueError", msg |-> "parent_project_mismatch",
                   project_id |-> project_id]
           ELSE [exc |-> "none", msg |-> "", project_id |-> project_id]

\* "Validate the parent ID": the step's value is the project_id to post.
TaskParentCheck(s, self, project_id, parent_id) ==
  IF parent_id.t = "NoneType" THEN Step(s, Returned(0), project_id)
  ELSE IF parent_id.t # "int" THEN Fail(s, "ValueError", "parent_id")
  ELSE Only({IF Raised(g.out) THEN g
             ELSE Only({IF found.exc # "none" THEN Fail(g.s, found.exc, found.msg)
                        ELSE Step(g.s, Returned(0), found.project_id) :
                          found \in {ParentProject(g.val, project_id, parent_id)}}) :
               g \in {get_active_tasks(s, self,
                                       [NoFilter EXCEPT !.project_id = project_id])}})

\* "Validate due_* arguments": the message of the ValueError, "" when none.
DueError(a) ==
  LET due_values == <<a.due_string, a.due_date, a.due_datetime>>
      given == {k \in 1..3 : due_values[k].t # "NoneType"}
  IN  IF ~\E k \in 1..3 : Truthy(due_values[k]) THEN ""
      ELSE IF \E k \in given : due_values[k].t # "str" THEN "due_type"
      ELSE IF Cardinality(given) > 1 THEN "due_count"
      ELSE ""

\* The validations from order to assignee: the exception raised and its
\* message, exc "none" when all pass.
TaskLocalError(a) ==
  LET raise(exc, msg) == [exc |-> exc, msg |-> msg]
  IN  IF a.order.t # "NoneType" /\ (a.order.t # "int" \/ a.order.i <= 0)
        THEN raise("ValueError", "order")
      ELSE IF a.priority.t # "NoneType"
              /\ ~(IsNumber(a.priority) /\ a.priority.i \in 1..4)
        THEN raise("ValueError", "priority")
      ELSE IF DueError(a) # "" THEN raise("ValueError", DueError(a))
      ELSE IF ~PyEq(a.due_lang, PyStr(<<"E","N">>))
        THEN raise("NotImplementedError", "due_lang")
      ELSE IF Truthy(a.assignee)
        THEN IF a.assignee.t # "int" THEN raise("ValueError", "assignee")
             ELSE raise("NotImplementedError", "assignee")
      ELSE raise("none", "")

Tomorrow == <<"T","o","m","o","r","r","o","w">>
\* "Default the due string to tomorrow, if not otherwise specified"
DueString(a) ==
  IF ~Truthy(a.due_date) /\ ~Truthy(a.due_datetime) /\ a.due_string.t = "NoneType"
    THEN PyStr(Tomorrow)
    ELSE a.due_string

\* "Append the due_* variable into the payload"
DueEntry(a) ==
  IF DueString(a).t # "NoneType" THEN "due_string" :> DueString(a)
  ELSE IF a.due_date.t # "NoneType" THEN "due_date" :> a.due_date
  ELSE IF a.due_datetime.t # "NoneType" THEN "due_datetime" :> a.due_datetime
  ELSE EmptyDict

\* "Create payload"; project_id is the one the parent check settled on.
TaskPayload(a, project_id) ==
  [content |-> a.task_name,
   description |-> IF a.description.t # "NoneType" THEN StrOf(a.description) ELSE PyNone,
   project_id |-> project_id, section_id |-> a.section_id, parent_id |-> a.parent_id,
   order |-> a.order, label_ids |-> a.label_ids, priority |-> a.priority,
   due_lang |-> a.due_lang, assignee |-> a.assignee] @@ DueEntry(a)

\* create_new_task from "Validate order" on.
TaskAfterParent(checked, self, a) ==
  IF Raised(checked.out) THEN checked
  ELSE IF TaskLocalError(a).exc # "none"
    THEN Fail(checked.s, TaskLocalError(a).exc, TaskLocalError(a).msg)
  ELSE Only({Json(posted) :
               posted \in {HttpPost(checked.s, self, <<"tasks">>,
                                    TaskPayload(a, checked.val), PyInt(200))}})

TaskAfterSection(checked, self, a) ==
  IF Raised(checked.out) THEN checked
  ELSE Only({TaskAfterParent(parent, self, a) :
               parent \in {TaskParentCheck(checked.s, self, a.project_id, a.parent_id)}})

TaskAfterProject(checked, self, a) ==
  IF Raised(checked.out) THEN checked
  ELSE Only({TaskAfterSection(section, self, a) :
               section \in {TaskSectionCheck(checked.s, self, a.project_id,
                                             a.section_id)}})

create_new_task(s, self, a) ==
  IF ~Truthy(a.task_name) \/ a.task_name.t # "str"
    THEN Fail(s, "ValueError", "task_name")
  ELSE Only({TaskAfterProject(checked, self, a) :
               checked \in {TaskProjectCheck(s, self, a.project_id)}})

--------------------------------------------------------------------------
(* Inputs of the dispatcher calls *)

\* Verb values a caller passes, in either letter case, and unsupported ones.
Verbs ==
  {GET, POST, DELETE, <<"g","e","t">>, <<"P","o","s","t">>,
   <<"P","U","T">>, <<"p","a","t","c","h">>}

StatusCodes == {200, 204, 302, 404, 500}
Replies == {TransportFailure} \cup {Response(s) : s \in StatusCodes}

\* Acceptable-status specifications: integers, lists, other collections of
\* integers, and values that are neither.
ExpectedSpecs ==
  {PyInt(200), PyInt(204),
   PyList(<<PyInt(200), PyInt(204)>>), PyList(<<PyInt(404)>>), PyList(<<>>),
   PyList(<<PyInt(200), PyStr(<<"2","0","4">>)>>),
   PyTuple(<<PyInt(200), PyInt(204)>>), PyStr(<<"2","0","0">>), PyNone,
   PyBool(TRUE)}

\* A headers argument: omitted (the function's default object is used) or a
\* dict the caller built.
Omitted == [ref |-> "default", dict |-> EmptyDict]
Supplied(d) == [ref |-> "caller", dict |-> d]
CallerDicts ==
  {"Accept" :> <<"*","/","*">>,
   "Authorization" :> <<"B","a","s","i","c"," ","x">>,
   "X-Request-Id" :> <<"M","Y","-","I","D">>}
HeaderArgs == {Omitted} \cup {Supplied(d) : d \in CallerDicts}

DispatcherFunctions == {"_do_request", "_do_get", "_do_post", "_do_delete"}

\* The headers object a dispatcher function works on.
HeadersObject(fn, harg) ==
  IF harg.ref = "default" THEN defaults[fn] ELSE harg.dict
\* The default objects after a call that left `after` in the object it worked on.
DefaultsAfter(fn, harg, after) ==
  IF harg.ref = "default" THEN [defaults EXCEPT ![fn] = after] ELSE defaults

AnyUrl == <<"projects">>
NoArgs == [none |-> TRUE]

Call(op, c, method, harg, expected, args, replies, out, sent) ==
  [op |-> op, client |-> c, http_method |-> method, headers |-> harg,
   expected |-> expected, args |-> args, replies |-> replies,
   out |-> out, sent |-> sent, val |-> <<>>, accepted |-> <<>>]

\* A call of an endpoint method: its arguments, the replies to its requests,
\* its outcome, the requests it issued and the value it returned.
EndpointCall(op, c, args, r) ==
  [Call(op, c, <<>>, Omitted, PyNone, args, r.s.replies, r.out, r.s.sent)
     EXCEPT !.val = IF Raised(r.out) THEN <<>> ELSE <<r.val>>,
            !.accepted = r.s.accepted]


\* No call is in progress: the caller is between two calls.
NoCall ==
  Call("none", "td1", <<>>, Omitted, PyNone, NoArgs, <<>>, Returned(0), <<>>)
Idle == last.op = "none"

--------------------------------------------------------------------------
(* State after construction of the two clients *)

Init ==
  /\ clients = [c \in ClientIds |-> TodoistAPI(ApiKeyOf(c))]
  /\ defaults = [fn \in DispatcherFunctions |-> EmptyDict]
  /\ uuid_clock = 0
  /\ projects = <<>>
  /\ sections = <<>>
  /\ tasks = <<>>
  /\ seen_request_ids = {}
  /\ last = NoCall

--------------------------------------------------------------------------
(* Direct calls of the dispatcher functions *)

DoRequest(c, verb, harg, expected, reply) ==
  LET r == _do_request(clients[c], verb, AnyUrl, HeadersObject("_do_request", harg),
                       EmptyDict, EmptyDict, expected, reply)
  IN  /\ Idle
      /\ defaults' = DefaultsAfter("_do_request", harg, r.headers)
      /\ seen_request_ids' = seen_request_ids \cup RequestIds(r.sent)
      /\ last' = Call("_do_request", c, verb, harg, expected, NoArgs, <<reply>>,
                      r.out, r.sent)
      /\ clients' = [clients EXCEPT ![c].auth_header = r.auth_header]
      /\ UNCHANGED <<uuid_clock, projects, sections, tasks>>

DoGet(c, harg, expected, reply) ==
  LET r == _do_get(clients[c], AnyUrl, HeadersObject("_do_get", harg),
                   EmptyDict, expected, reply)
  IN  /\ Idle
      /\ defaults' = DefaultsAfter("_do_get", harg, r.headers)
      /\ last' = Call("_do_get", c, GET, harg, expected, NoArgs, <<reply>>,
                      r.out, r.sent)
      /\ clients' = [clients EXCEPT ![c].auth_header = r.auth_header]
      /\ UNCHANGED <<uuid_clock, projects, sections, tasks, seen_request_ids>>

DoPost(c, harg, expected, reply) ==
  LET r == _do_post(clients[c], AnyUrl, HeadersObject("_do_post", harg),
                    EmptyDict, expected, reply, uuid_clock)
  IN  /\ Idle
      /\ uuid_clock + r.uuids <= MaxUuid
      /\ uuid_clock' = uuid_clock + r.uuids
      /\ defaults' = DefaultsAfter("_do_post", harg, r.headers)
      /\ seen_request_ids' = seen_request_ids \cup RequestIds(r.sent)
      /\ last' = Call("_do_post", c, POST, harg, expected, NoArgs, <<reply>>,
                      r.out, r.sent)
      /\ clients' = [clients EXCEPT ![c].auth_header = r.auth_header]
      /\ UNCHANGED <<projects, sections, tasks>>

\* The headers parameter of _do_delete is never read, so it is no input here.
DoDelete(c, expected, reply) ==
  LET r == _do_delete(clients[c], AnyUrl, defaults["_do_request"], expected, reply)
  IN  /\ Idle
      /\ defaults' = [defaults EXCEPT !["_do_request"] = r.headers]
      /\ last' = Call("_do_delete", c, DELETE, Omitted, expected, NoArgs, <<reply>>,
                      r.out, r.sent)
      /\ clients' = [clients EXCEPT ![c].auth_header = r.auth_header]
      /\ UNCHANGED <<uuid_clock, projects, sections, tasks, seen_request_ids>>

\* The call has returned or raised; the caller goes on to its next call.
Return ==
  /\ ~Idle
  /\ last' = NoCall
  /\ UNCHANGED <<clients, defaults, uuid_clock, projects, sections, tasks,
                 seen_request_ids>>

\* Calls of the four dispatcher functions one after another, on either
\* client, with and without caller-supplied headers.
NextDispatcher ==
  \/ Idle /\ \E c \in ClientIds, verb \in Verbs, harg \in HeaderArgs,
        expected \in ExpectedSpecs, reply \in Replies :
       DoRequest(c, verb, harg, expected, reply)
  \/ Idle /\ \E c \in ClientIds, harg \in HeaderArgs, expected \in ExpectedSpecs,
        reply \in Replies :
       DoGet(c, harg, expected, reply)
  \/ Idle /\ \E c \in ClientIds, harg \in HeaderArgs, expected \in ExpectedSpecs,
        reply \in Replies :
       DoPost(c, harg, expected, reply)
  \/ Idle /\ \E c \in ClientIds, expected \in ExpectedSpecs, reply \in Replies :
       DoDelete(c, expected, reply)
  \/ Return

SpecDispatcher == Init /\ [][NextDispatcher]_vars

--------------------------------------------------------------------------
(* Calls of the project endpoint methods *)

Test == <<"T","e","s","t">>
Work == <<"W","o","r","k">>
NameArgs == {PyStr(Test), PyStr(Lower(Test)), PyStr(Work)}
IdArgs == {PyInt(1), PyInt(2), PyStr(<<"1">>)}
ParentArgs == {PyNone} \cup IdArgs
Taupe == <<"T","a","u","p","e">>
NoColor == <<"n","o","c","o","l","o","r">>
ColorArgs == {PyNone, PyStr(Taupe), PyInt(49), PyStr(NoColor)}
FavoriteArgs == {PyBool(FALSE), PyBool(TRUE), PyStr(<<"y","e","s">>)}

\* What goes wrong with the n requests of a call: nothing, or one of them
\* fails (the call ends there in any case).
FaultScripts(n, kinds) ==
  {f \in [1..n -> kinds] : Cardinality({k \in 1..n : f[k] # "none"}) <= 1}
HardFaults == {"none", "error500", "transport"}
NoFaults(n) == [k \in 1..n |-> "none"]

\* The endpoint methods are called on one client.
Caller == "td1"

\* The process and the service after an endpoint call.
Effects(c, s) ==
  /\ clients' = [clients EXCEPT ![c].auth_header = s.auth_header]
  /\ defaults' = s.defaults
  /\ uuid_clock' = s.uuid_clock
  /\ projects' = s.projects
  /\ sections' = s.sections
  /\ tasks' = s.tasks
  /\ seen_request_ids' = s.seen

\* The call is one the bounds leave room for.
Commit(c, s) ==
  /\ Len(s.projects) <= MaxProjects
  /\ Len(s.sections) <= MaxSections
  /\ Len(s.tasks) <= MaxTasks
  /\ s.uuid_clock <= MaxUuid
  /\ Effects(c, s)

GetAllProjects(c, faults) ==
  \E r \in {get_all_projects(Session(clients[c], faults), clients[c])} :
      /\ Idle
      /\ Commit(c, r.s)
      /\ last' = EndpointCall("get_all_projects", c, NoArgs, r)

CreateNewProject(c, name, parent, color, favorite, faults) ==
  \E r \in {create_new_project(Session(clients[c], faults), clients[c], name, parent, color, favorite)} :
      /\ Idle
      /\ Commit(c, r.s)
      /\ last' = EndpointCall("create_new_project", c,
                              [new_project_name |-> name, parent_project_id |-> parent,
                               color |-> color, is_favorite |-> favorite], r)

GetProject(c, id, faults) ==
  \E r \in {get_project(Session(clients[c], faults), clients[c], id)} :
      /\ Idle
      /\ Commit(c, r.s)
      /\ last' = EndpointCall("get_project", c, [project_id |-> id], r)

ProjectExists(c, id, faults) ==
  \E r \in {project_exists(Session(clients[c], faults), clients[c], id)} :
      /\ Idle
      /\ Commit(c, r.s)
      /\ last' = EndpointCall("project_exists", c, [project_id |-> id], r)

UpdateProject(c, id, name, color, favorite, faults) ==
  \E r \in {update_project(Session(clients[c], faults), clients[c], id, name, color, favorite)} :
      /\ Idle
      /\ Commit(c, r.s)
      /\ last' = EndpointCall("update_project", c,
                              [project_id |-> id, project_name |-> name,
                               color |-> color, is_favorite |-> favorite], r)

DeleteProject(c, id, faults) ==
  \E r \in {delete_project(Session(clients[c], faults), clients[c], id)} :
      /\ Idle
      /\ Commit(c, r.s)
      /\ last' = EndpointCall("delete_project", c, [project_id |-> id], r)

NextProjects ==
  \/ Idle /\ \E faults \in FaultScripts(1, Faults) :
       GetAllProjects(Caller, faults)
  \/ Idle /\ \E name \in NameArgs, parent \in ParentArgs, color \in ColorArgs,
                favorite \in FavoriteArgs, faults \in FaultScripts(2, HardFaults) :
       CreateNewProject(Caller, name, parent, color, favorite, faults)
  \/ Idle /\ \E id \in IdArgs, faults \in FaultScripts(1, Faults) :
       GetProject(Caller, id, faults)
  \/ Idle /\ \E id \in IdArgs, faults \in FaultScripts(1, Faults) :
       ProjectExists(Caller, id, faults)
  \/ Idle /\ \E id \in IdArgs, name \in {PyNone, PyStr(Test)},
                color \in ColorArgs, favorite \in {PyNone, PyBool(FALSE), PyBool(TRUE)},
                faults \in FaultScripts(3, HardFaults) :
       UpdateProject(Caller, id, name, color, favorite, faults)
  \/ Idle /\ \E id \in IdArgs, faults \in FaultScripts(2, HardFaults) :
       DeleteProject(Caller, id, faults)
  \/ Return

SpecProjects == Init /\ [][NextProjects]_vars

--------------------------------------------------------------------------
(* Projects created one after another, under one another *)

Home == <<"H","o","m","e">>

\* create_new_project against a service with room for MaxCreated projects.
CreateNextProject(c, name, parent, faults) ==
  \E r \in {create_new_project(Session(clients[c], faults), clients[c], name, parent,
                                PyNone, PyBool(FALSE))} :
      /\ Idle
      /\ Len(r.s.projects) <= MaxCreated
      /\ r.s.uuid_clock <= MaxUuid
      /\ Effects(c, r.s)
      /\ last' = EndpointCall("create_new_project", c,
                              [new_project_name |-> name, parent_project_id |-> parent,
                               color |-> PyNone, is_favorite |-> PyBool(FALSE)], r)

NextCreate ==
  \/ Idle /\ \E name \in NameArgs \cup {PyStr(Home), PyStr(Upper(Home))},
                parent \in ParentArgs \cup {PyInt(3)},
                faults \in FaultScripts(2, HardFaults) :
       CreateNextProject(Caller, name, parent, faults)
  \/ Return

SpecCreate == Init /\ [][NextCreate]_vars

--------------------------------------------------------------------------
(* Calls of the section and task endpoint methods *)

CreateNewSection(c, section_name, project_id, faults) ==
  \E r \in {create_new_section(Session(clients[c], faults), clients[c], section_name,
                               project_id, PyNone)} :
      /\ Idle
      /\ Commit(c, r.s)
      /\ last' = EndpointCall("create_new_section", c,
                              [section_name |-> section_name, project_id |-> project_id], r)

GetActiveTasks(c, a, faults) ==
  \E r \in {get_active_tasks(Session(clients[c], faults), clients[c], a)} :
      /\ Idle
      /\ Commit(c, r.s)
      /\ last' = EndpointCall("get_active_tasks", c, a, r)

CreateNewTask(c, a, faults) ==
  \E r \in {create_new_task(Session(clients[c], faults), clients[c], a)} :
      /\ Idle
      /\ Commit(c, r.s)
      /\ last' = EndpointCall("create_new_task", c, a, r)

\* create_new_task(task_name="x"): every other argument at its default.
PlainTask ==
  [task_name |-> PyStr(<<"x">>), description |-> PyNone, project_id |-> PyNone,
   section_id |-> PyNone, parent_id |-> PyNone, order |-> PyNone,
   label_ids |-> PyNone, priority |-> PyInt(1), due_string |-> PyNone,
   due_date |-> PyNone, due_datetime |-> PyNone, due_lang |-> PyStr(<<"E","N">>),
   assignee |-> PyNone]

\* A project with sections and tasks in it and tasks in the inbox: the calls
\* that check that a project, a section or a parent task exists before they
\* write.  Project 2 is never there.
NextTasks ==
  \/ Idle /\ CreateNewProject(Caller, PyStr(Test), PyNone, PyNone, PyBool(FALSE),
                              NoFaults(2))
  \/ Idle /\ \E id \in IdArgs, faults \in FaultScripts(2, HardFaults) :
       CreateNewSection(Caller, PyStr(<<"s">>), id, faults)
  \/ Idle /\ \E project_id \in {PyNone, PyInt(1), PyInt(2)},
                section_id \in {PyNone, PyInt(1), PyInt(2)},
                parent_id \in {PyNone, PyInt(1), PyInt(2), PyStr(<<"1">>)},
                faults \in FaultScripts(5, HardFaults) :
       CreateNewTask(Caller, [PlainTask EXCEPT !.project_id = project_id,
                                               !.section_id = section_id,
                                               !.parent_id = parent_id], faults)
  \/ Idle /\ \E id \in IdArgs, favorite \in {PyBool(FALSE), PyBool(TRUE)},
                faults \in FaultScripts(3, HardFaults) :
       UpdateProject(Caller, id, PyNone, PyNone, favorite, faults)
  \/ Idle /\ \E id \in IdArgs, faults \in FaultScripts(2, HardFaults) :
       DeleteProject(Caller, id, faults)
  \/ Return

SpecTasks == Init /\ [][NextTasks]_vars

\* The values a due_* argument is given: None, "", a date, a number.
DueArgs == {PyNone, PyStr(<<>>), PyStr(<<"2","0","2","2">>), PyInt(5)}

NextDue ==
  \/ Idle /\ \E due_string \in DueArgs, due_date \in DueArgs, due_datetime \in DueArgs,
                faults \in FaultScripts(1, HardFaults) :
       CreateNewTask(Caller, [PlainTask EXCEPT !.due_string = due_string,
                                               !.due_date = due_date,
                                               !.due_datetime = due_datetime], faults)
  \/ Return

SpecDue == Init /\ [][NextDue]_vars

\* The values ids is given: None, lists of integers and of other values, and
\* values that are no list.
IdsArgs ==
  {PyNone, PyList(<<>>), PyList(<<PyInt(1)>>), PyList(<<PyInt(1), PyStr(<<"2">>)>>),
   PyList(<<PyBool(TRUE)>>), PyTuple(<<>>), PyStr(<<"1">>)}

NextFilter ==
  \/ Idle /\ \E project_id \in {PyNone, PyInt(1), PyStr(<<"1">>)},
                section_id \in {PyNone, PyInt(1)},
                filter \in {PyNone, PyStr(<<"t","o","d","a","y">>), PyInt(5)},
                ids \in IdsArgs, faults \in FaultScripts(1, Faults) :
       GetActiveTasks(Caller, [NoFilter EXCEPT !.project_id = project_id,
                                               !.section_id = section_id,
                                               !.filter = filter, !.ids = ids], faults)
  \/ Idle /\ CreateNewTask(Caller, PlainTask, NoFaults(1))
  \/ Return

SpecFilter == Init /\ [][NextFilter]_vars

--------------------------------------------------------------------------
(* Calls that go through the colour table: every form of every entry *)

\* The forms in which a caller can name the entry o: its id, its hex code and
\* its name, the strings in lower and in upper case.
ColorForms(o) ==
  {PyInt(o.id), PyStr(o.color_hex_code), PyStr(Upper(o.color_hex_code)),
   PyStr(o.color_name), PyStr(Upper(o.color_name))}
TableColors == UNION {ColorForms(TODOIST_COLORS[k]) : k \in DOMAIN TODOIST_COLORS}
\* Values that name no entry: an integer, a word and the digits of an id.
ForeignColors == {PyInt(99), PyStr(NoColor), PyStr(<<"3","0">>)}

NextColor ==
  \/ Idle /\ \E color \in TableColors \cup ForeignColors :
       CreateNewProject(Caller, PyStr(Test), PyNone, color, PyBool(FALSE), NoFaults(2))
  \/ Idle /\ \E color \in TableColors \cup ForeignColors :
       UpdateProject(Caller, PyInt(1), PyNone, color, PyNone, NoFaults(3))
  \/ Idle /\ DeleteProject(Caller, PyInt(1), NoFaults(2))
  \/ Return

SpecColor == Init /\ [][NextColor]_vars

--------------------------------------------------------------------------
(* Properties of the dispatcher *)

IsDispatcherCall == last.op \in DispatcherFunctions
TheReply == last.replies[1]

\* The verb, in whatever letter case, names GET, POST or DELETE.
SupportedVerb(v) == Upper(v) \in {GET, POST, DELETE}
AllInts(items) == \A k \in DOMAIN items : items[k].t = "int"
\* An integer or a collection (list, tuple) of integers.
IntOrCollectionOfInts(e) ==
  e.t = "int" \/ (e.t \in {"list", "tuple"} /\ AllInts(e.l))
\* An integer or a list of integers.
IntOrListOfInts(e) ==
  e.t = "int" \/ (e.t = "list" /\ AllInts(e.l))
\* The status codes an acceptable-status specification names.
AcceptableSet(e) ==
  IF e.t = "int" THEN {e.i} ELSE {e.l[k].i : k \in DOMAIN e.l}

\* C1: with a single integer or a collection of integers as the acceptable
\* set, _do_request returns the response iff its status is in the set, and
\* fails with an HTTP error carrying the status for every other status.
C1_AcceptsExactlyTheAcceptableCodes ==
  (/\ last.op = "_do_request"
   /\ SupportedVerb(last.http_method)
   /\ IntOrListOfInts(last.expected)
   /\ ~TheReply.transport)
  => IF TheReply.status \in AcceptableSet(last.expected)
       THEN last.out = Returned(TheReply.status)
       ELSE last.out = Outcome("HTTPError", "", TheReply.status)

\* C2: a POST issued by _do_post for a caller that gave no X-Request-Id
\* carries a fresh identifier, one no POST issued before has carried.
C2_FreshRequestIdPerPost ==
  [][(/\ last'.op = "_do_post"
      /\ "X-Request-Id" \notin Keys(last'.headers.dict)
      /\ last'.sent # <<>>)
     => last'.sent[1].headers["X-Request-Id"] \notin seen_request_ids]_vars

\* C3: every request issued carries an Authorization header: the caller's
\* own if one was supplied, else "Bearer <api_key>" of the calling client.
C3_AuthorizationOfTheCallingClient ==
  IsDispatcherCall =>
    \A k \in DOMAIN last.sent :
      LET h == last.sent[k].headers
      IN  /\ "Authorization" \in Keys(h)
          /\ h["Authorization"] =
               IF "Authorization" \in Keys(last.headers.dict)
                 THEN last.headers.dict["Authorization"]
                 ELSE BearerPrefix \o clients[last.client].api_key

\* C4: an unsupported verb fails with the unsupported-method error and no
\* request is issued, whatever the acceptable-status specification is.
C4_UnsupportedVerbFailsFirst ==
  (last.op = "_do_request" /\ ~SupportedVerb(last.http_method))
  => /\ last.out = Outcome("ValueError", "unsupported_method", 0)
     /\ last.sent = <<>>

C4_Witness ==
  /\ last.op = "_do_request"
  /\ last.http_method = <<"p","a","t","c","h">>
  /\ last.expected = PyNone
  /\ last.out.msg = "unsupported_method"
  /\ last.sent = <<>>

\* C5 as stated: with a supported verb the validation fails, with no request
\* issued, exactly when the specification is neither an integer nor a
\* collection of integers.
C5_RejectsExactlyNonIntegerSpecs ==
  (last.op = "_do_request" /\ SupportedVerb(last.http_method))
  => /\ (last.out.msg = "expected_status_code") <=> ~IntOrCollectionOfInts(last.expected)
     /\ (last.out.msg = "expected_status_code") =>
          (last.out.exc = "ValueError" /\ last.sent = <<>>)

\* C5 amended: the validation fails, with no request issued, exactly when the
\* specification is neither an int nor a list of ints; a tuple of integers
\* is rejected like any other non-list value.
C5_RejectsExactlyNonListSpecs ==
  (last.op = "_do_request" /\ SupportedVerb(last.http_method))
  => /\ (last.out.msg = "expected_status_code") <=> ~IntOrListOfInts(last.expected)
     /\ (last.out.msg = "expected_status_code") =>
          (last.out.exc = "ValueError" /\ last.sent = <<>>)

C5_Witness ==
  /\ last.op = "_do_request"
  /\ last.http_method = GET
  /\ last.expected = PyTuple(<<PyInt(200), PyInt(204)>>)
  /\ last.out = Outcome("ValueError", "expected_status_code", 0)
  /\ last.sent = <<>>

--------------------------------------------------------------------------
(* Properties of the project endpoint methods *)

\* The ids of the table entries a colour value names: by id, by hex code or
\* by name, the strings in any letter case.
NamedIds(color) ==
  {TODOIST_COLORS[k].id : k \in
     {j \in DOMAIN TODOIST_COLORS :
        LET o == TODOIST_COLORS[j]
        IN  \/ color.t = "int" /\ color.i = o.id
            \/ color.t = "str" /\ Lower(color.s) \in {o.color_hex_code, o.color_name}}}

\* The POST requests among the requests of the last call.
Posts == {k \in DOMAIN last.sent : last.sent[k].method = POST}
AllAnswered(n, status) ==
  /\ Len(last.replies) >= n
  /\ \A k \in 1..n : last.replies[k] = Response(status)

\* The last call got as far as its colour validation with a colour supplied.
ColorValidated ==
  /\ \/ last.op = "create_new_project" /\ AllAnswered(1, 200)
                                       /\ last.out.msg # "duplicate_name"
     \/ last.op = "update_project" /\ AllAnswered(2, 200)
  /\ last.args.color.t # "NoneType"

\* C6: a colour given as a table entry's id, hex code or name (any letter
\* case) resolves to that entry's id, which is what the write request carries;
\* a value that names no entry fails with ValueError.
C6_EveryFormResolvesToTheId ==
  ColorValidated =>
    IF NamedIds(last.args.color) # {}
      THEN /\ last.out.msg # "color"
           /\ \A k \in Posts :
                last.sent[k].body[1].json["color"].i \in NamedIds(last.args.color)
      ELSE last.out = Outcome("ValueError", "color", 0)

\* C7: project_exists on an integer id returns True when the get succeeds,
\* False when it fails with status 404, and re-raises the error of the get
\* in every other case; False is returned for a 404 only.
C7_FalseOnlyOnNotFound ==
  (last.op = "project_exists" /\ last.args.project_id.t = "int")
  => LET reply == last.replies[1]
     IN  /\ Len(last.sent) = 1
         /\ reply = Response(200) => last.val = <<TRUE>>
         /\ reply = Response(404) => last.val = <<FALSE>>
         /\ reply = Response(500) => last.out = Outcome("HTTPError", "", 500)
         /\ reply = TransportFailure => last.out = Outcome("ConnectionError", "", 0)
         /\ reply = Response(204) => last.out = Outcome("JSONDecodeError", "", 0)
         /\ last.val = <<FALSE>> => reply = Response(404)

C7_Witness ==
  /\ last.op = "project_exists"
  /\ last.args.project_id = PyInt(2)
  /\ Len(projects) = 1
  /\ last.replies = <<Response(404)>>
  /\ last.val = <<FALSE>>

\* C8: update_project on an existing project, every supplied value equal to
\* the project's current one (the colour compared by the id it names), fails
\* with the conflict error ValueError and issues no POST.
C8_NoChangeIsAConflict ==
  [][(/\ last'.op = "update_project"
      /\ last'.args.project_id.t = "int"
      /\ last'.args.project_id.i \in ProjectIds(projects)
      /\ Len(last'.replies) >= 2
      /\ last'.replies[1] = Response(200) /\ last'.replies[2] = Response(200)
      /\ LET a == last'.args
             p == ProjectWithId(projects, a.project_id.i)
         IN  /\ a.project_name.t # "NoneType" => a.project_name = PyStr(p.name)
             /\ a.color.t # "NoneType" => p.color \in NamedIds(a.color)
             /\ a.is_favorite.t # "NoneType" => a.is_favorite = PyBool(p.favorite))
     => /\ last'.out = Outcome("ValueError", "no_change", 0)
        /\ \A k \in DOMAIN last'.sent : last'.sent[k].method # POST]_vars

\* An argument of the last call that fails local validation: a parent id that
\* is not an integer, a colour that names no table entry, a favourite flag
\* that is not a boolean (create_new_project); a colour that names no table
\* entry (update_project).
Unresolvable(color) == color.t # "NoneType" /\ NamedIds(color) = {}
InvalidArgument ==
  \/ /\ last.op = "create_new_project"
     /\ \/ last.args.parent_project_id.t \notin {"NoneType", "int"}
        \/ Unresolvable(last.args.color)
        \/ last.args.is_favorite.t # "bool"
  \/ /\ last.op = "update_project"
     /\ last.args.project_id.t = "int"
     /\ Unresolvable(last.args.color)

\* C10 as stated: a call with an argument that fails local validation fails
\* without any HTTP request having been issued.
C10_NoRequestBeforeValidation ==
  InvalidArgument => (Raised(last.out) /\ last.sent = <<>>)

\* C10 amended: a call with an argument that fails local validation fails
\* without a POST having been issued; the GETs that list the projects or
\* fetch the project come before the validation and are issued.
C10_NoWriteBeforeValidation ==
  InvalidArgument => (Raised(last.out) /\ Posts = {})

C10_Witness ==
  /\ last.op = "create_new_project"
  /\ last.args.color = PyStr(NoColor)
  /\ last.out = Outcome("ValueError", "color", 0)
  /\ Len(last.sent) = 1
  /\ last.sent[1].method = GET

\* The requests of the last call, by verb and resource.
IsRequest(k, method, url) ==
  last.sent[k].method = method /\ last.sent[k].url = url
BodyOf(k) == last.sent[k].body[1].json

\* C11: create_new_project with a new name and colour "taupe", no parent, not
\* a favourite, issues one POST, to projects, with body {name, color: 49} and
\* 200 as the acceptable status, and returns the project object of the
\* response; any POST it issues has parent_id only if a parent was supplied
\* and favorite only if is_favorite is true.
C11_CreatePostsNameAndColor ==
  [][(last'.op = "create_new_project") =>
       LET a == last'.args
           posts == {k \in DOMAIN last'.sent : last'.sent[k].method = POST}
       IN  /\ \A k \in posts :
                LET body == last'.sent[k].body[1].json
                IN  /\ last'.sent[k].url = <<"projects">>
                    /\ last'.accepted[k] = PyInt(200)
                    /\ body["name"] = a.new_project_name
                    /\ "parent_id" \in Keys(body) <=> a.parent_project_id.t # "NoneType"
                    /\ "favorite" \in Keys(body) <=> a.is_favorite = PyBool(TRUE)
                    /\ "color" \in Keys(body) <=> a.color.t # "NoneType"
           /\ (/\ a.color.t = "str" /\ Lower(a.color.s) = Lower(Taupe)
               /\ a.parent_project_id = PyNone
               /\ a.is_favorite = PyBool(FALSE)
               /\ \A k \in DOMAIN projects :
                    Lower(projects[k].name) # Lower(a.new_project_name.s)
               /\ last'.replies = <<Response(200), Response(200)>>)
              => /\ Len(last'.sent) = 2 /\ posts = {2}
                 /\ last'.sent[2].body[1].json =
                      ("name" :> a.new_project_name) @@ ("color" :> PyInt(49))
                 /\ projects' = Append(projects, last'.val[1])
                 /\ last'.val[1].id \notin ProjectIds(projects)]_vars

C11_Witness ==
  /\ last.op = "create_new_project"
  /\ last.args.color = PyStr(Taupe)
  /\ Len(last.sent) = 2
  /\ IsRequest(2, POST, <<"projects">>)
  /\ BodyOf(2) = ("name" :> PyStr(Test)) @@ ("color" :> PyInt(49))
  /\ last.val = <<[id |-> 1, name |-> Test, color |-> 49, favorite |-> FALSE,
                   parent_id |-> 0]>>

\* C12: create_new_project with a name equal, ignoring letter case, to that of
\* a listed project fails with the duplicate-name error and no POST; with an
\* integer parent_project_id that is the id of no listed project it fails
\* with the parent-does-not-exist error and no POST.
C12_DuplicateNameOrMissingParent ==
  [][(/\ last'.op = "create_new_project"
      /\ last'.replies # <<>>
      /\ last'.replies[1] = Response(200))
     => LET a == last'.args
            duplicate == \E k \in DOMAIN projects :
                           Lower(projects[k].name) = Lower(a.new_project_name.s)
            orphan == /\ a.parent_project_id.t = "int"
                      /\ a.parent_project_id.i \notin ProjectIds(projects)
            no_post == \A k \in DOMAIN last'.sent : last'.sent[k].method # POST
        IN  /\ duplicate =>
                 (last'.out = Outcome("IndexError", "duplicate_name", 0) /\ no_post)
            /\ (~duplicate /\ orphan) =>
                 (last'.out = Outcome("IndexError", "parent_project_id", 0) /\ no_post)]_vars

C12_Witness ==
  /\ last.op = "create_new_project"
  /\ last.args.new_project_name = PyStr(Lower(Test))
  /\ Len(projects) = 1 /\ projects[1].name = Test
  /\ last.out = Outcome("IndexError", "duplicate_name", 0)
  /\ Len(last.sent) = 1

\* C14: whatever calls were made, each client's api_key is the one it was
\* constructed with and its auth_header holds the single entry
\* Authorization = "Bearer <api_key>".
C14_CredentialNeverMutated ==
  \A c \in ClientIds :
    /\ clients[c].api_key = ApiKeyOf(c)
    /\ clients[c].auth_header = ("Authorization" :> (BearerPrefix \o ApiKeyOf(c)))

\* A request was sent with the caller's headers merged with the credential.
C14_Witness ==
  /\ last.op = "_do_get"
  /\ last.headers = Supplied("Accept" :> <<"*","/","*">>)
  /\ Len(last.sent) = 1
  /\ Keys(last.sent[1].headers) = {"Accept", "Authorization"}
  /\ Keys(clients[last.client].auth_header) = {"Authorization"}

\* C16: update_project on an existing project with at least one supplied value
\* that differs from the current one issues the two GETs of projects/{id} and
\* then one POST to projects/{id} whose body holds exactly the supplied
\* fields (the colour as the id it names), with 204 as the acceptable status.
C16_UpdatePostsSuppliedFields ==
  [][(/\ last'.op = "update_project"
      /\ last'.args.project_id.t = "int"
      /\ last'.args.project_id.i \in ProjectIds(projects)
      /\ Len(last'.replies) >= 2
      /\ last'.replies[1] = Response(200) /\ last'.replies[2] = Response(200)
      /\ LET a == last'.args
             p == ProjectWithId(projects, a.project_id.i)
         IN  /\ a.color.t # "NoneType" => NamedIds(a.color) # {}
             /\ \/ a.project_name.t # "NoneType" /\ a.project_name # PyStr(p.name)
                \/ a.color.t # "NoneType" /\ p.color \notin NamedIds(a.color)
                \/ a.is_favorite.t # "NoneType" /\ a.is_favorite # PyBool(p.favorite))
     => LET a == last'.args
            url == <<"projects", a.project_id.i>>
            fields == (IF a.project_name.t # "NoneType"
                         THEN "name" :> a.project_name ELSE EmptyDict)
                      @@ (IF a.color.t # "NoneType"
                            THEN "color" :> PyInt(CHOOSE id \in NamedIds(a.color) : TRUE)
                            ELSE EmptyDict)
                      @@ (IF a.is_favorite.t # "NoneType"
                            THEN "favorite" :> a.is_favorite ELSE EmptyDict)
        IN  /\ Len(last'.sent) = 3
            /\ last'.sent[1].method = GET /\ last'.sent[1].url = url
            /\ last'.sent[2].method = GET /\ last'.sent[2].url = url
            /\ last'.sent[3].method = POST /\ last'.sent[3].url = url
            /\ last'.sent[3].body[1].json = fields
            /\ last'.accepted[3] = PyInt(204)]_vars

\* C18: with projects created by create_new_project only, no two remote
\* projects have names equal ignoring letter case, and a project created
\* under a parent has a parent that was listed when the call was made.
C18_NamesStayDistinct ==
  [][/\ \A i, j \in DOMAIN projects' :
          i # j => Lower(projects'[i].name) # Lower(projects'[j].name)
     /\ (last'.op = "create_new_project" /\ projects' # projects)
          => /\ Len(projects') = Len(projects) + 1
             /\ LET new == projects'[Len(projects')]
                IN  /\ new.parent_id =
                         IF last'.args.parent_project_id.t = "int"
                           THEN last'.args.parent_project_id.i ELSE 0
                    /\ new.parent_id # 0 => new.parent_id \in ProjectIds(projects)]_vars

C18_Witness ==
  /\ last.op = "create_new_project"
  /\ Len(projects) = 2
  /\ Lower(projects[1].name) = Lower(Test)
  /\ projects[2].name = Work
  /\ projects[2].parent_id = projects[1].id
  /\ last.args.parent_project_id = PyInt(1)

--------------------------------------------------------------------------
(* Properties of the calls that check before they write *)

CheckingCalls ==
  {"update_project", "delete_project", "create_new_section", "create_new_task"}
Given(v) == v.t # "NoneType"

\* C13: in update_project, delete_project, create_new_section and
\* create_new_task the POST or DELETE is the last request of the call and
\* every GET before it was answered with 200; when the project, the section
\* (of that project) or the parent task referred to does not exist, the call
\* fails and issues no POST or DELETE.
C13_WriteOnlyAfterChecksPassed ==
  [][(last'.op \in CheckingCalls) =>
       LET a == last'.args
           sent == last'.sent
           writes == {k \in DOMAIN sent : sent[k].method \in {POST, DELETE}}
           missing_project ==
             /\ a.project_id.t = "int"
             /\ a.project_id.i \notin ProjectIds(projects)
           missing_section ==
             /\ last'.op = "create_new_task" /\ Given(a.section_id)
             /\ ~\E k \in DOMAIN sections :
                   /\ PyEq(a.section_id, PyInt(sections[k].id))
                   /\ PyEq(a.project_id, PyInt(sections[k].project_id))
           missing_parent ==
             /\ last'.op = "create_new_task" /\ Given(a.parent_id)
             /\ ~InIds(a.parent_id, tasks)
       IN  /\ writes \subseteq {Len(sent)}
           /\ writes # {} =>
                \A k \in 1..(Len(sent) - 1) :
                  sent[k].method = GET /\ last'.replies[k] = Response(200)
           /\ (missing_project \/ missing_section \/ missing_parent)
                => (Raised(last'.out) /\ writes = {})]_vars

\* A task asked for under a section that the project does not have.
C13_Witness ==
  /\ last.op = "create_new_task"
  /\ last.args.project_id = PyInt(1) /\ last.args.section_id = PyInt(1)
  /\ Len(projects) = 1 /\ sections = <<>>
  /\ last.out = Outcome("ValueError", "section_does_not_exist", 0)
  /\ Len(last.sent) = 3
  /\ \A k \in 1..3 : last.sent[k].method = GET

\* C19: a POST of create_new_task that carries a parent_id carries the
\* project_id of that parent task, taken from the parent when none was
\* given; a project_id that is not the parent's fails with no POST, and a
\* section_id without a project_id fails before any request.
C19_ChildGoesToTheParentsProject ==
  [][(last'.op = "create_new_task") =>
       LET a == last'.args
           sent == last'.sent
           posts == {k \in DOMAIN sent : sent[k].method = POST}
           parents == {k \in DOMAIN tasks : PyEq(a.parent_id, PyInt(tasks[k].id))}
       IN  /\ \A k \in posts :
                LET body == sent[k].body[1].json
                IN  Given(body["parent_id"]) =>
                      /\ body["parent_id"] = a.parent_id
                      /\ parents # {}
                      /\ \A j \in parents : body["project_id"] = PyInt(tasks[j].project_id)
           /\ (/\ Given(a.parent_id) /\ Given(a.project_id)
               /\ \E j \in parents : ~PyEq(a.project_id, PyInt(tasks[j].project_id)))
                => (Raised(last'.out) /\ posts = {})
           /\ (Given(a.section_id) /\ ~Given(a.project_id))
                => (last'.out = Outcome("ValueError", "section_without_project", 0)
                    /\ sent = <<>>)]_vars

\* A child task posted without a project_id, under a parent in project 1.
C19_Witness ==
  /\ last.op = "create_new_task"
  /\ last.args.project_id = PyNone /\ last.args.parent_id = PyInt(1)
  /\ Len(tasks) = 2 /\ tasks[1].project_id = 1
  /\ tasks[2] = [id |-> 2, project_id |-> 1, section_id |-> 0, parent_id |-> 1]
  /\ Len(last.sent) = 2
  /\ last.sent[2].body[1].json["project_id"] = PyInt(1)

\* C15: get_active_tasks with ids = [] issues the GET that the same call
\* with ids omitted issues (same URL, same query parameters, none of them
\* ids) and does not fail on its arguments; a non-empty ids list with an
\* element that is not an integer fails with no request issued.
C15_EmptyIdsIsNoFilter ==
  [][(last'.op = "get_active_tasks") =>
       LET a == last'.args
           omitted == get_active_tasks(Session(clients[Caller], NoFaults(1)),
                                       clients[Caller], [a EXCEPT !.ids = PyNone])
       IN  /\ a.ids = PyList(<<>>) =>
                /\ Len(last'.sent) = Len(omitted.s.sent)
                /\ \A k \in DOMAIN last'.sent :
                     /\ last'.sent[k].method = GET
                     /\ last'.sent[k].url = omitted.s.sent[k].url
                     /\ last'.sent[k].params = omitted.s.sent[k].params
                     /\ "ids" \notin Keys(last'.sent[k].params[1])
                /\ last'.out.msg # "ids"
                /\ (last'.replies = <<Response(200)>>) => ~Raised(last'.out)
           /\ (/\ a.ids.t = "list"
               /\ \E k \in DOMAIN a.ids.l : a.ids.l[k].t # "int")
                => (Raised(last'.out) /\ last'.sent = <<>>)]_vars

C15_Witness ==
  /\ last.op = "get_active_tasks"
  /\ last.args.ids = PyList(<<>>)
  /\ last.args.project_id = PyInt(1)
  /\ Len(last.sent) = 1
  /\ last.sent[1].url = <<"tasks">>
  /\ last.sent[1].params = <<"project_id" :> PyInt(1)>>
  /\ ~Raised(last.out)

\* The due_* keys of a payload.
DueKeys(body) == Keys(body) \cap {"due_string", "due_date", "due_datetime"}

\* C17: a POST of create_new_task carries exactly one of due_string, due_date
\* and due_datetime; more than one due_* argument that is not None, or one
\* that is truthy and no string, fails with no POST; with none given the
\* payload has due_string = "Tomorrow".
C17_ExactlyOneDueValue ==
  (last.op = "create_new_task") =>
    LET a == last.args
        due_values == <<a.due_string, a.due_date, a.due_datetime>>
        given == {k \in 1..3 : due_values[k].t # "NoneType"}
    IN  /\ \A k \in Posts : Cardinality(DueKeys(BodyOf(k))) = 1
        /\ (\/ Cardinality(given) > 1
            \/ \E k \in given : due_values[k].t # "str" /\ Truthy(due_values[k]))
             => (Raised(last.out) /\ Posts = {})
        /\ (given = {} /\ Posts # {})
             => \A k \in Posts : BodyOf(k)["due_string"] = PyStr(Tomorrow)

====
